---- MODULE Spec2Model ----
(***************************************************************************)
(* Model of the RTM -> Nextcloud converter (rtm_to_nextcloud.py and the    *)
(* conversion part of rtm_to_nextcloud_tui.py).                            *)
(*                                                                         *)
(* Texts are sequences of characters.  A fixed literal of the program      *)
(* ('BEGIN:VTODO', 'SUMMARY:' ...) is one atom of such a sequence; user    *)
(* data is always spelled character by character.  An optional JSON field  *)
(* is a sequence of length 0 (key absent) or 1 (the value).                *)
(***************************************************************************)
EXTENDS Integers, Sequences, FiniteSets, TLC

VARIABLES
    text_in,          \* escape run: the argument of escape_ical_text
    text_out,         \* escape run: its result (<<>> before the call)
    task_in,          \* mapper run: the task handed to convert_task_to_vtodo
    block_out,        \* mapper run: the block returned (<<>> before the call)
    rtm_data,         \* the parsed export: its lists, notes and tasks
    args,             \* the parsed filter arguments
    lists,            \* list id -> list name, as built by main (sequence of pairs)
    notes_by_series,  \* series id -> notes, as built by main (sequence of pairs)
    tz,               \* offset of the local timezone in seconds
    idx,              \* filter loop: position of the next task of rtm_data.tasks
    tasks_by_list,    \* list id -> included tasks (sequence of pairs)
    filtered_count,   \* number of tasks the filter rejected
    gidx,             \* write loop: position of the next item of tasks_by_list
    files,            \* output directory: file name -> content (sequence of pairs)
    written,          \* every write so far, in order: <<list_id, file name, content>>
    files_created,    \* main's files_created list
    total_tasks,
    total_incomplete,
    total_completed,
    pc                \* position of the run

ioVars   == <<text_in, text_out, task_in, block_out>>
dataVars == <<rtm_data, args, tz>>
loopVars == <<idx, tasks_by_list, filtered_count>>
outVars  == <<gidx, files, written, files_created, total_tasks, total_incomplete,
              total_completed>>

vars == <<text_in, text_out, task_in, block_out, rtm_data, args, lists,
          notes_by_series, tz, idx, tasks_by_list, filtered_count, gidx, files,
          written, files_created, total_tasks, total_incomplete, total_completed, pc>>

-----------------------------------------------------------------------------
(* Bounds *)

MaxLen == 3          \* longest input text of the escape run
MaxNameLen == 2      \* longest task name of the mapper run
MaxTags == 2         \* most tags of a task of the mapper run
MaxTasks == 2        \* most task records of an export of the conversion run

-----------------------------------------------------------------------------
(* Optional values and characters *)

None == <<>>
Some(v) == <<v>>

BS == "\\"
LF == "\n"
CR == "\r"

EscAlphabet == {BS, ",", ";", LF, "a"}

RECURSIVE TextsUpTo(_, _)
TextsUpTo(alphabet, n) ==
    IF n = 0 THEN {<<>>}
    ELSE LET shorter == TextsUpTo(alphabet, n - 1)
         IN  shorter \cup {<<c>> \o t : c \in alphabet, t \in {s \in shorter : Len(s) = n - 1}}

-----------------------------------------------------------------------------
(* str.replace(old, new) for a one-character old *)

RECURSIVE Replace(_, _, _)
Replace(text, old, new) ==
    IF text = <<>> THEN <<>>
    ELSE (IF Head(text) = old THEN new ELSE <<Head(text)>>) \o Replace(Tail(text), old, new)

(* escape_ical_text with the backslash pass moved after the others *)
escape_ical_text_backslash_last(text) ==
    IF text = None \/ text[1] = <<>> THEN <<>>
    ELSE LET t1 == Replace(text[1], ",", <<BS, ",">>)
             t2 == Replace(t1, ";", <<BS, ";">>)
             t3 == Replace(t2, LF, <<BS, "n">>)
         IN  Replace(t3, BS, <<BS, BS>>)

(* escape_ical_text(text); text is None or Some(string) *)
escape_ical_text(text) ==
    IF text = None \/ text[1] = <<>> THEN <<>>
    ELSE LET t1 == Replace(text[1], BS, <<BS, BS>>)
             t2 == Replace(t1, ",", <<BS, ",">>)
             t3 == Replace(t2, ";", <<BS, ";">>)
         IN  Replace(t3, LF, <<BS, "n">>)

-----------------------------------------------------------------------------
(* JSON scalars (an id may be a number or a string), str() and truthiness *)

IntV(n) == [kind |-> "int", n |-> n, s |-> <<>>]
StrV(t) == [kind |-> "str", n |-> 0, s |-> t]

DigitChars == <<"0", "1", "2", "3", "4", "5", "6", "7", "8", "9">>

RECURSIVE IntToText(_)
IntToText(n) ==
    IF n < 10 THEN <<DigitChars[n + 1]>>
    ELSE IntToText(n \div 10) \o <<DigitChars[(n % 10) + 1]>>

(* str(v) *)
Str(v) == IF v.kind = "int" THEN IntToText(v.n) ELSE v.s

(* bool(v) of a scalar *)
TruthyScalar(v) == IF v.kind = "int" THEN v.n # 0 ELSE v.s # <<>>

(* An epoch-millisecond timestamp is kept as whole seconds and the
   remaining milliseconds: the value is sec * 1000 + ms. *)
Ts(sec, ms) == [sec |-> sec, ms |-> ms]
TruthyTs(t) == t.sec # 0 \/ t.ms # 0

(* task.get(key) is truthy *)
HasText(f)   == f # None /\ f[1] # <<>>
HasScalar(f) == f # None /\ TruthyScalar(f[1])
HasTs(f)     == f # None /\ TruthyTs(f[1])
HasFlag(f)   == f # None /\ f[1]

-----------------------------------------------------------------------------
(* dict, kept as the sequence of its (key, value) pairs in insertion order *)

DictKeys(d) == {d[i][1] : i \in DOMAIN d}
DictGet(d, k) == d[CHOOSE i \in DOMAIN d : d[i][1] = k][2]
DictSet(d, k, v) ==
    IF k \in DictKeys(d)
    THEN [i \in DOMAIN d |-> IF d[i][1] = k THEN <<k, v>> ELSE d[i]]
    ELSE Append(d, <<k, v>>)

(* sep.join(parts) *)
RECURSIVE Join(_, _)
Join(parts, sep) ==
    IF parts = <<>> THEN <<>>
    ELSE IF Len(parts) = 1 THEN parts[1]
    ELSE parts[1] \o sep \o Join(Tail(parts), sep)

CRLF == <<CR, LF>>

-----------------------------------------------------------------------------
(* format_datetime: datetime.fromtimestamp(ms / 1000.0) in the local
   timezone, then strftime('%Y%m%dT%H%M%S') or strftime('%Y%m%d') *)

PadTo(t, width) == [i \in 1..(width - Len(t)) |-> "0"] \o t

Pad(n, width) == PadTo(IntToText(n), width)

(* proleptic Gregorian date of a day number counted from 1970-01-01:
   the year of the era from the day of the era, then the month and the day
   from the day of the year (the year starting in March) *)
YearOfEra(doe) ==
    (doe - doe \div 1460 + doe \div 36524 - doe \div 146096) \div 365

DayOfYear(doe, yoe) == doe - (365 * yoe + yoe \div 4 - yoe \div 100)

CivilOfMarchYear(y, doy, mp) ==
    [year  |-> IF mp < 10 THEN y ELSE y + 1,
     month |-> IF mp < 10 THEN mp + 3 ELSE mp - 9,
     day   |-> doy - (153 * mp + 2) \div 5 + 1]

CivilOfYearOfEra(era, yoe, doy) ==
    CivilOfMarchYear(yoe + era * 400, doy, (5 * doy + 2) \div 153)

CivilOfEra(era, doe) == CivilOfYearOfEra(era, YearOfEra(doe), DayOfYear(doe, YearOfEra(doe)))

CivilFromDays(days) ==
    CivilOfEra((days + 719468) \div 146097, (days + 719468) % 146097)

(* a local date and a second of that day as a datetime *)
DatetimeOf(date, sod, microsecond) ==
    [year |-> date.year, month |-> date.month, day |-> date.day,
     hour |-> sod \div 3600, minute |-> (sod % 3600) \div 60,
     second |-> sod % 60, microsecond |-> microsecond]

(* datetime.fromtimestamp(timestamp_ms / 1000.0) *)
fromtimestamp(ts, offset) ==
    DatetimeOf(CivilFromDays((ts.sec + offset) \div 86400), (ts.sec + offset) % 86400,
               ts.ms * 1000)

(* dt.strftime('%Y%m%dT%H%M%S') or dt.strftime('%Y%m%d') *)
strftime(dt, has_time) ==
    Pad(dt.year, 4) \o Pad(dt.month, 2) \o Pad(dt.day, 2)
    \o (IF has_time
        THEN <<"T">> \o Pad(dt.hour, 2) \o Pad(dt.minute, 2) \o Pad(dt.second, 2)
        ELSE <<>>)

(* format_datetime(timestamp_ms, has_time) *)
format_datetime(timestamp_ms, has_time, offset) ==
    IF ~TruthyTs(timestamp_ms) THEN None
    ELSE Some(strftime(fromtimestamp(timestamp_ms, offset), has_time))

(* convert_priority *)
convert_priority(rtm_priority) ==
    CASE rtm_priority = <<"P", "1">> -> 1
      [] rtm_priority = <<"P", "2">> -> 5
      [] rtm_priority = <<"P", "3">> -> 9
      [] OTHER -> 0

(* convert_recurrence *)
convert_recurrence(rtm_repeat) ==
    IF ~HasText(rtm_repeat) THEN None ELSE rtm_repeat

-----------------------------------------------------------------------------
(* convert_task_to_vtodo, section by section.  Every section yields the
   lines it appends to `lines`, each line a text. *)

(* UID *)
vtodo_uid(task) == << <<"UID:", "rtm-">> \o Str(task.id[1]) >>

(* RELATED-TO *)
vtodo_related_to(task) ==
    IF HasScalar(task.parent_id)
    THEN << <<"RELATED-TO:", "rtm-">> \o Str(task.parent_id[1]) >>
    ELSE <<>>

(* SUMMARY: escape_ical_text(task.get('name', 'Untitled Task')) *)
vtodo_summary(task) ==
    << <<"SUMMARY:">> \o
       (IF task.name = None THEN <<"Untitled Task">>
        ELSE escape_ical_text(task.name)) >>

(* PRIORITY *)
vtodo_priority(task) ==
    IF HasText(task.priority) /\ convert_priority(task.priority[1]) > 0
    THEN << <<"PRIORITY:">> \o IntToText(convert_priority(task.priority[1])) >>
    ELSE <<>>

(* use_time = has_due_time or has_start_time *)
use_time(task) ==
    LET has_due_time   == IF task.date_due_has_time = None THEN FALSE
                          ELSE task.date_due_has_time[1]
        has_start_time == IF task.date_start_has_time = None THEN FALSE
                          ELSE task.date_start_has_time[1]
    IN  has_due_time \/ has_start_time

(* the DUE or DTSTART line of a formatted date *)
date_line(name, date, with_time) ==
    IF date = None THEN <<>>
    ELSE IF with_time THEN << <<name, ":">> \o date[1] >>
    ELSE << <<name, ";VALUE=DATE:">> \o date[1] >>

(* a DUE or DTSTART line *)
vtodo_date(name, field, with_time, offset) ==
    IF ~HasTs(field) THEN <<>>
    ELSE date_line(name, format_datetime(field[1], with_time, offset), with_time)

(* DUE *)
vtodo_due(task, offset) == vtodo_date("DUE", task.date_due, use_time(task), offset)

(* DTSTART whose granularity follows its own flag *)
vtodo_dtstart_own_flag(task, offset) ==
    vtodo_date("DTSTART", task.date_start, HasFlag(task.date_start_has_time), offset)

(* DTSTART *)
vtodo_dtstart(task, offset) ==
    vtodo_date("DTSTART", task.date_start, use_time(task), offset)

(* the line of a formatted date-time *)
stamp_line(name, date) == IF date = None THEN <<>> ELSE << <<name>> \o date[1] >>

(* a line made of a full date-time, when the field is present *)
vtodo_stamp(name, field, offset) ==
    IF ~HasTs(field) THEN <<>>
    ELSE stamp_line(name, format_datetime(field[1], TRUE, offset))

(* STATUS without the else branch: NEEDS-ACTION is always appended *)
vtodo_status_no_else(task, offset) ==
    (IF HasTs(task.date_completed)
     THEN << <<"STATUS:COMPLETED">> >> \o vtodo_stamp("COMPLETED:", task.date_completed, offset)
     ELSE <<>>) \o << <<"STATUS:NEEDS-ACTION">> >>

(* STATUS and COMPLETED *)
vtodo_status(task, offset) ==
    IF HasTs(task.date_completed)
    THEN << <<"STATUS:COMPLETED">> >> \o vtodo_stamp("COMPLETED:", task.date_completed, offset)
    ELSE << <<"STATUS:NEEDS-ACTION">> >>

(* CREATED *)
vtodo_created(task, offset) == vtodo_stamp("CREATED:", task.date_created, offset)

(* LAST-MODIFIED *)
vtodo_last_modified(task, offset) ==
    vtodo_stamp("LAST-MODIFIED:", task.date_modified, offset)

(* RRULE *)
vtodo_rrule(task) ==
    IF HasText(task.repeat) /\ convert_recurrence(task.repeat) # None
    THEN << <<"RRULE:">> \o convert_recurrence(task.repeat)[1] >>
    ELSE <<>>

(* URL *)
vtodo_url(task) ==
    IF HasText(task.url) THEN << <<"URL:">> \o escape_ical_text(task.url) >> ELSE <<>>

(* the list_id of a task as main and the mapper read it:
   str(task.get('list_id', '')) *)
task_list_id(task) == IF task.list_id = None THEN <<>> ELSE Str(task.list_id[1])

(* CATEGORIES from the tags alone *)
vtodo_categories_tags_only(task, list_names) ==
    LET categories == IF task.tags # None /\ task.tags[1] # <<>> THEN task.tags[1] ELSE <<>>
    IN  IF categories # <<>>
        THEN << <<"CATEGORIES:">> \o
                Join([i \in DOMAIN categories |-> escape_ical_text(Some(categories[i]))],
                     <<",">>) >>
        ELSE <<>>

(* CATEGORIES: the tags, then the list name *)
vtodo_categories(task, list_names) ==
    LET tags       == IF task.tags # None /\ task.tags[1] # <<>> THEN task.tags[1] ELSE <<>>
        list_id    == task_list_id(task)
        categories == IF list_id # <<>> /\ list_id \in DictKeys(list_names)
                      THEN Append(tags, DictGet(list_names, list_id))
                      ELSE tags
    IN  IF categories # <<>>
        THEN << <<"CATEGORIES:">> \o
                Join([i \in DOMAIN categories |-> escape_ical_text(Some(categories[i]))],
                     <<",">>) >>
        ELSE <<>>

(* DESCRIPTION: the non-empty note contents of the task's series *)
vtodo_description(task, notes) ==
    LET series_id == IF task.series_id = None THEN <<>> ELSE Str(task.series_id[1])
        series    == IF series_id # <<>> /\ series_id \in DictKeys(notes)
                     THEN DictGet(notes, series_id) ELSE <<>>
        note_text(note) == IF note.content = None THEN <<>> ELSE note.content[1]
        description_parts ==
            SelectSeq([i \in DOMAIN series |-> note_text(series[i])], LAMBDA t : t # <<>>)
    IN  IF description_parts # <<>>
        THEN << <<"DESCRIPTION:">> \o
                escape_ical_text(Some(Join(description_parts, <<LF, LF>>))) >>
        ELSE <<>>

(* X-RTM-POSTPONE-COUNT appended whenever the key is there, 0 included *)
vtodo_custom_key_present(task) ==
    IF task.postponed # None
    THEN << <<"X-RTM-POSTPONE-COUNT:">> \o Str(task.postponed[1]) >>
    ELSE <<>>

(* X-RTM-POSTPONE-COUNT *)
vtodo_custom(task) ==
    IF HasScalar(task.postponed)
    THEN << <<"X-RTM-POSTPONE-COUNT:">> \o Str(task.postponed[1]) >>
    ELSE <<>>

(* the lines of the block with CREATED appended before STATUS *)
vtodo_lines_created_first(task, list_names, notes, offset) ==
    << <<"BEGIN:VTODO">> >>
    \o vtodo_uid(task)
    \o vtodo_related_to(task)
    \o vtodo_summary(task)
    \o vtodo_priority(task)
    \o vtodo_due(task, offset)
    \o vtodo_dtstart(task, offset)
    \o vtodo_created(task, offset)
    \o vtodo_status(task, offset)
    \o vtodo_last_modified(task, offset)
    \o vtodo_rrule(task)
    \o vtodo_url(task)
    \o vtodo_categories(task, list_names)
    \o vtodo_description(task, notes)
    \o vtodo_custom(task)
    \o << <<"END:VTODO">> >>

(* the lines of the block, in the order they are appended *)
vtodo_lines(task, list_names, notes, offset) ==
    << <<"BEGIN:VTODO">> >>
    \o vtodo_uid(task)
    \o vtodo_related_to(task)
    \o vtodo_summary(task)
    \o vtodo_priority(task)
    \o vtodo_due(task, offset)
    \o vtodo_dtstart(task, offset)
    \o vtodo_status(task, offset)
    \o vtodo_created(task, offset)
    \o vtodo_last_modified(task, offset)
    \o vtodo_rrule(task)
    \o vtodo_url(task)
    \o vtodo_categories(task, list_names)
    \o vtodo_description(task, notes)
    \o vtodo_custom(task)
    \o << <<"END:VTODO">> >>

(* convert_task_to_vtodo(task, lists, notes_by_series) *)
convert_task_to_vtodo(task, list_names, notes, offset) ==
    Join(vtodo_lines(task, list_names, notes, offset), CRLF)

(* the keys read as task[key] with parent_id read without its test *)
subscripted_keys_parent_untested(task) ==
    {"id", "parent_id"}
    \cup (IF HasText(task.priority) THEN {"priority"} ELSE {})
    \cup (IF HasTs(task.date_due) THEN {"date_due"} ELSE {})
    \cup (IF HasTs(task.date_start) THEN {"date_start"} ELSE {})
    \cup (IF HasTs(task.date_completed) THEN {"date_completed"} ELSE {})
    \cup (IF HasTs(task.date_created) THEN {"date_created"} ELSE {})
    \cup (IF HasTs(task.date_modified) THEN {"date_modified"} ELSE {})
    \cup (IF HasText(task.repeat) THEN {"repeat"} ELSE {})
    \cup (IF HasText(task.url) THEN {"url"} ELSE {})
    \cup (IF task.tags # None /\ task.tags[1] # <<>> THEN {"tags"} ELSE {})
    \cup (IF HasScalar(task.postponed) THEN {"postponed"} ELSE {})

(* the keys one call reads as task[key]: 'id' on line 71 without a test,
   every other key inside the `if task.get(key):` of that key (lines 76-77,
   85-86, 97-98, 106-107, 115-117, 124-125, 130-131, 136-137, 142-143,
   148-149, 176-177); name, list_id, series_id and the has-time flags are
   only ever read with task.get *)
subscripted_keys(task) ==
    {"id"}
    \cup (IF HasScalar(task.parent_id) THEN {"parent_id"} ELSE {})
    \cup (IF HasText(task.priority) THEN {"priority"} ELSE {})
    \cup (IF HasTs(task.date_due) THEN {"date_due"} ELSE {})
    \cup (IF HasTs(task.date_start) THEN {"date_start"} ELSE {})
    \cup (IF HasTs(task.date_completed) THEN {"date_completed"} ELSE {})
    \cup (IF HasTs(task.date_created) THEN {"date_created"} ELSE {})
    \cup (IF HasTs(task.date_modified) THEN {"date_modified"} ELSE {})
    \cup (IF HasText(task.repeat) THEN {"repeat"} ELSE {})
    \cup (IF HasText(task.url) THEN {"url"} ELSE {})
    \cup (IF task.tags # None /\ task.tags[1] # <<>> THEN {"tags"} ELSE {})
    \cup (IF HasScalar(task.postponed) THEN {"postponed"} ELSE {})

(* the keys read as lists[key] (line 153) and notes_by_series[key] (line
   165), each inside the `in` test of its table *)
table_lookups(task, list_names, notes) ==
    LET list_id   == task_list_id(task)
        series_id == IF task.series_id = None THEN <<>> ELSE Str(task.series_id[1])
    IN  [lists |-> IF list_id # <<>> /\ list_id \in DictKeys(list_names)
                   THEN {list_id} ELSE {},
         notes |-> IF series_id # <<>> /\ series_id \in DictKeys(notes)
                   THEN {series_id} ELSE {}]

(* the call ends in a KeyError: a key it subscripts is not there *)
raises_KeyError(task, list_names, notes) ==
    \/ \E key \in subscripted_keys(task) : task[key] = None
    \/ \E key \in table_lookups(task, list_names, notes).lists :
           key \notin DictKeys(list_names)
    \/ \E key \in table_lookups(task, list_names, notes).notes :
           key \notin DictKeys(notes)

-----------------------------------------------------------------------------
(* The export and the tables main builds from it *)

Work == <<"W", "o", "r", "k">>
Home == <<"H", "o", "m", "e">>

EmptyExport == [lists |-> <<>>, notes |-> <<>>, tasks |-> <<>>]

(* args with no filter option given *)
NoFilter == [lists |-> None, exclude_lists |-> None, incomplete_only |-> FALSE,
             skip_completed_before |-> None]

(* the list records of an export with the lists 7 = Work and 8 = Home *)
WorkHomeLists == <<[id |-> IntV(7), name |-> Work], [id |-> StrV(<<"8">>), name |-> Home]>>

(* the note records of an export *)
ExportNotes ==
    <<[series_id |-> Some(IntV(9)), content |-> Some(<<"f", ",">>)],
      [series_id |-> Some(StrV(<<"5">>)), content |-> None],
      [series_id |-> None, content |-> Some(<<"x">>)],
      [series_id |-> Some(StrV(<<"9">>)), content |-> Some(<<>>)],
      [series_id |-> Some(IntV(9)), content |-> Some(<<"s", LF>>)]>>

(* lists[str(lst['id'])] = lst['name'] for every list record *)
RECURSIVE build_lists(_)
build_lists(records) ==
    IF records = <<>> THEN <<>>
    ELSE LET n   == Len(records)
             lst == records[n]
         IN  DictSet(build_lists(SubSeq(records, 1, n - 1)), Str(lst.id), lst.name)

(* notes_by_series[series_id].append(note) for every note with a series_id *)
RECURSIVE build_notes_by_series(_)
build_notes_by_series(records) ==
    IF records = <<>> THEN <<>>
    ELSE LET n         == Len(records)
             note      == records[n]
             before    == build_notes_by_series(SubSeq(records, 1, n - 1))
             series_id == IF note.series_id = None THEN <<>> ELSE Str(note.series_id[1])
         IN  IF series_id = <<>> THEN before
             ELSE IF series_id \in DictKeys(before)
             THEN DictSet(before, series_id, Append(DictGet(before, series_id), note))
             ELSE DictSet(before, series_id, <<note>>)

(* the state of main's loops before main has run *)
MainIdle ==
    /\ idx = 0
    /\ tasks_by_list = <<>>
    /\ filtered_count = 0
    /\ gidx = 0
    /\ files = <<>>
    /\ written = <<>>
    /\ files_created = <<>>
    /\ total_tasks = 0
    /\ total_incomplete = 0
    /\ total_completed = 0

-----------------------------------------------------------------------------
(* The escape run: one call of escape_ical_text on an arbitrary text *)

InitEscape ==
    /\ text_in \in {None} \cup {Some(t) : t \in TextsUpTo(EscAlphabet, MaxLen)}
    /\ text_out = <<>>
    /\ task_in = None
    /\ block_out = <<>>
    /\ rtm_data = EmptyExport
    /\ args = NoFilter
    /\ lists = <<>>
    /\ notes_by_series = <<>>
    /\ tz = 0
    /\ MainIdle
    /\ pc = "escape"

Escape ==
    /\ pc = "escape"
    /\ text_out' = escape_ical_text(text_in)
    /\ pc' = "escaped"
    /\ UNCHANGED <<text_in, task_in, block_out, lists, notes_by_series>>
    /\ UNCHANGED <<dataVars, loopVars, outVars>>

NextEscape == Escape

SpecEscape == InitEscape /\ [][NextEscape]_vars

-----------------------------------------------------------------------------
(* C7: escape_ical_text returns the character-by-character image of its
   input (backslash doubled; comma, semicolon and newline prefixed by a
   backslash, newline written as 'n'; any other character unchanged), and
   the empty string for an absent or empty input. *)

EscapeChar(c) ==
    CASE c = BS  -> <<BS, BS>>
      [] c = "," -> <<BS, ",">>
      [] c = ";" -> <<BS, ";">>
      [] c = LF  -> <<BS, "n">>
      [] OTHER   -> <<c>>

RECURSIVE SinglePass(_)
SinglePass(t) == IF t = <<>> THEN <<>> ELSE EscapeChar(Head(t)) \o SinglePass(Tail(t))

EscapeIsSinglePass ==
    pc = "escaped" =>
        text_out = (IF text_in = None THEN <<>> ELSE SinglePass(text_in[1]))

(* a text with a comma right after a backslash has been escaped *)
EscapeWitness ==
    /\ pc = "escaped"
    /\ text_in = Some(<<BS, ",", LF>>)
    /\ text_out = <<BS, BS, BS, ",", BS, "n">>

-----------------------------------------------------------------------------
(* The mapper run: one call of convert_task_to_vtodo on an arbitrary task *)

TZOffsets == {0, -28800, 19800}

T2023 == Ts(1700000000, 0)      \* 2023-11-14 22:13:20 UTC
TLeap == Ts(951868799, 999)     \* 2000-02-29 23:59:59.999 UTC
TOne  == Ts(0, 1)               \* one millisecond after the epoch
TZero == Ts(0, 0)               \* the falsy timestamp

BaseTask ==
    [id |-> Some(IntV(42)), parent_id |-> None, series_id |-> None, list_id |-> None,
     name |-> None, priority |-> None,
     date_due |-> None, date_start |-> None, date_completed |-> None,
     date_created |-> None, date_modified |-> None,
     date_due_has_time |-> None, date_start_has_time |-> None,
     repeat |-> None, url |-> None, tags |-> None, postponed |-> None,
     source |-> None]

Opt(S) == {None} \cup {Some(v) : v \in S}

(* every combination of presence of the optional fields *)
PresenceTasks ==
    {[BaseTask EXCEPT !.parent_id = pa, !.priority = pr, !.date_due = du,
                      !.date_start = st, !.date_completed = co, !.date_created = cr,
                      !.date_modified = mo, !.repeat = re, !.url = ur,
                      !.list_id = li, !.series_id = se, !.postponed = po] :
        pa \in Opt({IntV(41)}), pr \in Opt({<<"P", "2">>}), du \in Opt({T2023}),
        st \in Opt({TLeap}), co \in Opt({T2023}), cr \in Opt({TOne}),
        mo \in Opt({T2023}), re \in Opt({<<"FREQ=WEEKLY;INTERVAL=1">>}),
        ur \in Opt({<<"u", ";">>}), li \in Opt({StrV(<<"7">>)}),
        se \in Opt({IntV(9)}), po \in Opt({IntV(3)})}

(* every combination of the dates and of their has-time flags *)
DateTasks ==
    {[BaseTask EXCEPT !.date_due = du, !.date_start = st, !.date_completed = co,
                      !.date_due_has_time = df, !.date_start_has_time = sf] :
        du \in Opt({TZero, T2023, TOne}), st \in Opt({TLeap, T2023}),
        co \in Opt({TZero, TLeap}), df \in Opt(BOOLEAN), sf \in Opt(BOOLEAN)}

TagSeqs ==
    UNION {[1..n -> {<<"t">>, <<"x", ",">>}] : n \in 0..MaxTags}

(* every name and priority, with falsy parent_id and postponed values *)
NameTasks ==
    {[BaseTask EXCEPT !.name = na, !.priority = pr, !.parent_id = pa, !.postponed = po] :
        na \in Opt(TextsUpTo(EscAlphabet, MaxNameLen)),
        pr \in Opt({<<>>, <<"P", "1">>, <<"P", "3">>, <<"P", "4">>}),
        pa \in {None, Some(IntV(0))}, po \in {None, Some(IntV(0))}}

(* every tag sequence, list reference and series reference *)
CategoryTasks ==
    {[BaseTask EXCEPT !.tags = ta, !.list_id = li, !.series_id = se, !.name = na] :
        ta \in Opt(TagSeqs),
        li \in Opt({IntV(7), StrV(<<"8">>), StrV(<<"9", "9">>), StrV(<<>>)}),
        se \in Opt({StrV(<<"9">>), IntV(5), IntV(6)}),
        na \in {None, Some(<<>>)}}

(* every postpone count and source, with and without a description *)
VendorTasks ==
    {[BaseTask EXCEPT !.postponed = po, !.source = so, !.series_id = se] :
        po \in Opt({IntV(0), IntV(3), StrV(<<"2">>)}),
        so \in Opt({<<>>, <<"j", "s">>}),
        se \in Opt({IntV(9)})}

(* references that resolve and references that do not, around fields that
   are only read with task.get *)
ReferenceTasks ==
    {[BaseTask EXCEPT !.id = id, !.parent_id = pa, !.list_id = li, !.series_id = se,
                      !.name = na, !.tags = ta, !.date_due_has_time = df] :
        id \in Opt({IntV(42)}), pa \in Opt({IntV(41)}),
        li \in Opt({StrV(<<"7">>), StrV(<<"9", "9">>)}),
        se \in Opt({IntV(9), IntV(77)}), na \in Opt({<<"n">>}),
        ta \in Opt({<< <<"t">> >>}), df \in Opt({TRUE})}

(* every combination of presence of the optional fields, the id missing *)
NoIdTasks == {[t EXCEPT !.id = None] : t \in PresenceTasks}

VtodoTasks == PresenceTasks \cup DateTasks \cup NameTasks \cup CategoryTasks
              \cup VendorTasks \cup ReferenceTasks \cup NoIdTasks

InitVtodo ==
    /\ text_in = None
    /\ text_out = <<>>
    /\ task_in \in {Some(t) : t \in VtodoTasks}
    /\ block_out = <<>>
    /\ rtm_data = [lists |-> WorkHomeLists, notes |-> ExportNotes, tasks |-> <<>>]
    /\ args = NoFilter
    /\ lists = build_lists(rtm_data.lists)
    /\ notes_by_series = build_notes_by_series(rtm_data.notes)
    /\ tz \in TZOffsets
    /\ MainIdle
    /\ pc = "convert"

Convert ==
    /\ pc = "convert"
    /\ IF raises_KeyError(task_in[1], lists, notes_by_series)
       THEN /\ pc' = "raised"
            /\ UNCHANGED block_out
       ELSE /\ block_out' = convert_task_to_vtodo(task_in[1], lists, notes_by_series, tz)
            /\ pc' = "converted"
    /\ UNCHANGED <<text_in, text_out, task_in, lists, notes_by_series>>
    /\ UNCHANGED <<dataVars, loopVars, outVars>>

NextVtodo == Convert

SpecVtodo == InitVtodo /\ [][NextVtodo]_vars

-----------------------------------------------------------------------------
(* should_include_task *)

(* a datetime is earlier than another one: the comparison of naive datetimes *)
DatetimeLess(a, b) ==
    LET ka == <<a.year, a.month, a.day, a.hour, a.minute, a.second, a.microsecond>>
        kb == <<b.year, b.month, b.day, b.hour, b.minute, b.second, b.microsecond>>
    IN  \E i \in 1..7 : ka[i] < kb[i] /\ \A j \in 1..(i - 1) : ka[j] = kb[j]

(* parse_date: midnight of the given day *)
parse_date(year, month, day) ==
    [year |-> year, month |-> month, day |-> day,
     hour |-> 0, minute |-> 0, second |-> 0, microsecond |-> 0]

Elements(seq) == {seq[i] : i \in DOMAIN seq}

(* should_include_task where the deny-list is only read without an allow-list *)
should_include_task_first_list_clause(task, a, list_names, offset) ==
    LET list_id      == task_list_id(task)
        list_name    == IF list_id \in DictKeys(list_names)
                        THEN DictGet(list_names, list_id) ELSE <<>>
        is_completed == HasTs(task.date_completed)
    IN  IF a.lists # None /\ a.lists[1] # <<>>
        THEN list_name \in Elements(a.lists[1])
        ELSE IF a.exclude_lists # None /\ a.exclude_lists[1] # <<>>
                /\ list_name \in Elements(a.exclude_lists[1])
        THEN FALSE
        ELSE IF a.incomplete_only /\ is_completed
        THEN FALSE
        ELSE IF a.skip_completed_before # None /\ is_completed
                /\ DatetimeLess(fromtimestamp(task.date_completed[1], offset),
                                a.skip_completed_before[1])
        THEN FALSE
        ELSE TRUE

(* should_include_task(task, args, list_names) *)
should_include_task(task, a, list_names, offset) ==
    LET list_id      == task_list_id(task)
        list_name    == IF list_id \in DictKeys(list_names)
                        THEN DictGet(list_names, list_id) ELSE <<>>
        is_completed == HasTs(task.date_completed)
    IN  IF a.lists # None /\ a.lists[1] # <<>>
           /\ list_name \notin Elements(a.lists[1])
        THEN FALSE
        ELSE IF a.exclude_lists # None /\ a.exclude_lists[1] # <<>>
                /\ list_name \in Elements(a.exclude_lists[1])
        THEN FALSE
        ELSE IF a.incomplete_only /\ is_completed
        THEN FALSE
        ELSE IF a.skip_completed_before # None /\ is_completed
                /\ DatetimeLess(fromtimestamp(task.date_completed[1], offset),
                                a.skip_completed_before[1])
        THEN FALSE
        ELSE TRUE

-----------------------------------------------------------------------------
(* The body of main's write loop *)

Letters ==
    {"a", "b", "c", "d", "e", "f", "g", "h", "i", "j", "k", "l", "m", "n", "o", "p",
     "q", "r", "s", "t", "u", "v", "w", "x", "y", "z", "A", "B", "C", "D", "E", "F",
     "G", "H", "I", "J", "K", "L", "M", "N", "O", "P", "Q", "R", "S", "T", "U", "V",
     "W", "X", "Y", "Z"}

isalnum(c) == c \in Letters \/ \E i \in DOMAIN DigitChars : DigitChars[i] = c

(* lists.get(list_id, f'List-{list_id}') *)
group_list_name(list_id, list_names) ==
    IF list_id \in DictKeys(list_names) THEN DictGet(list_names, list_id)
    ELSE <<"L", "i", "s", "t", "-">> \o list_id

(* safe_name: every character that is not alphanumeric, ' ', '-' or '_'
   becomes '_' *)
safe_name(list_name) ==
    [i \in DOMAIN list_name |->
        IF isalnum(list_name[i]) \/ list_name[i] \in {" ", "-", "_"}
        THEN list_name[i] ELSE "_"]

(* output_file.name *)
output_file(list_name) == safe_name(list_name) \o <<".ics">>

(* lines 344-355: the lines of the document, a block being one entry *)
document_lines(list_name, tasks, list_names, notes, offset) ==
    << <<"BEGIN:VCALENDAR">>,
       <<"VERSION:2.0">>,
       <<"PRODID:-//RTM to Nextcloud Converter//EN">>,
       <<"CALSCALE:GREGORIAN">>,
       <<"X-WR-CALNAME:">> \o escape_ical_text(Some(list_name)) >>
    \o [i \in DOMAIN tasks |-> convert_task_to_vtodo(tasks[i], list_names, notes, offset)]
    \o << <<"END:VCALENDAR">> >>

(* the document joined with a bare newline *)
ics_content_lf(lines) == Join(lines, <<LF>>)

(* ics_content = '\r\n'.join(lines) *)
ics_content(lines) == Join(lines, CRLF)

-----------------------------------------------------------------------------
(* The conversion run: main from the parsed export to the summary *)

(* list records whose names collide with a synthesized name or need escaping *)
OddLists == <<[id |-> IntV(7), name |-> <<"L", "i", "s", "t", "-", "9", "9">>],
              [id |-> StrV(<<"8">>), name |-> <<"A", ",", "B">>]>>

TCutoff == Ts(1577836800, 0)     \* 2020-01-01 00:00:00 UTC

(* the task records of an export: the id is the position in the export *)
MainTask(i, li, co) ==
    [BaseTask EXCEPT !.id = Some(IntV(i)), !.list_id = li, !.date_completed = co]

MainListIds == Opt({IntV(7), StrV(<<"7">>), StrV(<<"8">>), StrV(<<"9", "9">>)})
MainCompleted == Opt({TCutoff})

TaskSeqs ==
    UNION {{[i \in 1..n |-> MainTask(i, li[i], co[i])] :
               li \in [1..n -> MainListIds], co \in [1..n -> MainCompleted]} :
           n \in 0..MaxTasks}

ArgSets ==
    [lists : {None, Some(<<Work, <<"L", "i", "s", "t", "-", "9", "9">> >>)},
     exclude_lists : {None, Some(<<Home, <<"A", ",", "B">> >>)},
     incomplete_only : BOOLEAN,
     skip_completed_before : {None, Some(parse_date(2020, 1, 1))}]

InitMain ==
    /\ text_in = None
    /\ text_out = <<>>
    /\ task_in = None
    /\ block_out = <<>>
    /\ rtm_data \in [lists : {WorkHomeLists, OddLists}, notes : {ExportNotes},
                     tasks : TaskSeqs]
    /\ args \in ArgSets
    /\ lists = <<>>
    /\ notes_by_series = <<>>
    /\ tz \in {0, -28800}
    /\ MainIdle
    /\ pc = "load"

(* the grouping step putting the task in front of its group *)
add_to_group_front(groups, list_id, task) ==
    IF list_id \notin DictKeys(groups)
    THEN DictSet(groups, list_id, <<task>>)
    ELSE DictSet(groups, list_id, <<task>> \o DictGet(groups, list_id))

(* lines 319-322: tasks_by_list[list_id].append(task), the group made on
   first use *)
add_to_group(groups, list_id, task) ==
    IF list_id \notin DictKeys(groups)
    THEN DictSet(groups, list_id, <<task>>)
    ELSE DictSet(groups, list_id, Append(DictGet(groups, list_id), task))

(* lines 286-312: the two lookup tables *)
BuildTables ==
    /\ pc = "load"
    /\ lists' = build_lists(rtm_data.lists)
    /\ notes_by_series' = build_notes_by_series(rtm_data.notes)
    /\ idx' = 1
    /\ pc' = "filter"
    /\ UNCHANGED <<ioVars, dataVars, tasks_by_list, filtered_count, outVars>>

(* the counter going up by two for one excluded task *)
count_filtered_twice(count) == count + 2

(* lines 323-324: else: filtered_count += 1 *)
count_filtered(count) == count + 1

(* lines 317-324: one iteration of the filter-and-group loop *)
FilterTask ==
    /\ pc = "filter"
    /\ idx <= Len(rtm_data.tasks)
    /\ LET task    == rtm_data.tasks[idx]
           list_id == task_list_id(task)
       IN  IF should_include_task(task, args, lists, tz)
           THEN /\ tasks_by_list' = add_to_group(tasks_by_list, list_id, task)
                /\ UNCHANGED filtered_count
           ELSE /\ filtered_count' = count_filtered(filtered_count)
                /\ UNCHANGED tasks_by_list
    /\ idx' = idx + 1
    /\ UNCHANGED <<ioVars, dataVars, lists, notes_by_series, outVars, pc>>

(* lines 326-334: the loop is over, the counters of the write loop are set *)
EndFilter ==
    /\ pc = "filter"
    /\ idx > Len(rtm_data.tasks)
    /\ gidx' = 1
    /\ pc' = "write"
    /\ UNCHANGED <<ioVars, dataVars, lists, notes_by_series, loopVars, files, written,
                   files_created, total_tasks, total_incomplete, total_completed>>

(* lines 336-371: one iteration of the write loop *)
WriteList ==
    /\ pc = "write"
    /\ gidx <= Len(tasks_by_list)
    /\ LET list_id    == tasks_by_list[gidx][1]
           tasks      == tasks_by_list[gidx][2]
           list_name  == group_list_name(list_id, lists)
           file       == output_file(list_name)
           lines      == document_lines(list_name, tasks, lists, notes_by_series, tz)
           content    == ics_content(lines)
           incomplete == Cardinality({i \in DOMAIN tasks : ~HasTs(tasks[i].date_completed)})
           completed  == Cardinality({i \in DOMAIN tasks : HasTs(tasks[i].date_completed)})
       IN  /\ files' = DictSet(files, file, content)
           /\ written' = Append(written, <<list_id, file, content>>)
           /\ total_tasks' = total_tasks + Len(tasks)
           /\ total_incomplete' = total_incomplete + incomplete
           /\ total_completed' = total_completed + completed
           /\ files_created' = Append(files_created,
                                      <<file, Len(tasks), incomplete, completed>>)
    /\ gidx' = gidx + 1
    /\ UNCHANGED <<ioVars, dataVars, lists, notes_by_series, loopVars, pc>>

(* lines 373-385: the summary *)
Finish ==
    /\ pc = "write"
    /\ gidx > Len(tasks_by_list)
    /\ pc' = "done"
    /\ UNCHANGED <<ioVars, dataVars, lists, notes_by_series, loopVars, outVars>>

Next == BuildTables \/ FilterTask \/ EndFilter \/ WriteList \/ Finish

Spec == InitMain /\ [][Next]_vars

(* an export of ten tasks over the lists 7 and "8", the first tasks in list
   7 and the others in list "8", three of the ten completed, converted with
   --incomplete-only and no other filter *)
IncompleteOnly == [NoFilter EXCEPT !.incomplete_only = TRUE]

InitScenarioD ==
    /\ text_in = None
    /\ text_out = <<>>
    /\ task_in = None
    /\ block_out = <<>>
    /\ \E k \in 1..9 : \E done \in {d \in SUBSET (1..10) : Cardinality(d) = 3} :
           rtm_data = [lists |-> WorkHomeLists, notes |-> ExportNotes,
                       tasks |-> [i \in 1..10 |->
                                     MainTask(i,
                                              IF i <= k THEN Some(IntV(7))
                                              ELSE Some(StrV(<<"8">>)),
                                              IF i \in done THEN Some(TCutoff) ELSE None)]]
    /\ args = IncompleteOnly
    /\ lists = <<>>
    /\ notes_by_series = <<>>
    /\ tz = 0
    /\ MainIdle
    /\ pc = "load"

InitCounts == InitMain \/ InitScenarioD

SpecCounts == InitCounts /\ [][Next]_vars

-----------------------------------------------------------------------------
(* Reading a block or a document back: its lines, and the kind of a line *)

RECURSIVE SplitLines(_)
SplitLines(t) ==
    LET breaks == {i \in 1..(Len(t) - 1) : t[i] = CR /\ t[i + 1] = LF}
    IN  IF breaks = {} THEN <<t>>
        ELSE LET i == CHOOSE j \in breaks : \A k \in breaks : j <= k
             IN  <<SubSeq(t, 1, i - 1)>> \o SplitLines(SubSeq(t, i + 2, Len(t)))

BlockLines == SplitLines(block_out)

Kind(line) == IF line = <<>> THEN "" ELSE line[1]

LinesOfKind(ls, kinds) == {i \in DOMAIN ls : Kind(ls[i]) \in kinds}

IsDigit(c) == \E i \in DOMAIN DigitChars : DigitChars[i] = c

IsDateOnly(v) == Len(v) = 8 /\ \A i \in 1..8 : IsDigit(v[i])

IsDateTime(v) ==
    /\ Len(v) = 15
    /\ v[9] = "T"
    /\ \A i \in (1..15) \ {9} : IsDigit(v[i])

-----------------------------------------------------------------------------
(* C2: in every block the DUE and DTSTART lines share one granularity, the
   OR of the two has-time flags: the 15-character date-time form without
   the VALUE=DATE qualifier when either flag is true, the 8-character date
   form with the qualifier when both are false or absent. *)

EitherHasTime(t) ==
    t.date_due_has_time = Some(TRUE) \/ t.date_start_has_time = Some(TRUE)

GranularityConsistent ==
    pc = "converted" =>
        LET ls == BlockLines
        IN  \A i \in LinesOfKind(ls, {"DUE", "DTSTART"}) :
                IF EitherHasTime(task_in[1])
                THEN ls[i][2] = ":" /\ IsDateTime(SubSeq(ls[i], 3, Len(ls[i])))
                ELSE ls[i][2] = ";VALUE=DATE:" /\ IsDateOnly(SubSeq(ls[i], 3, Len(ls[i])))

(* due and start both present, only the due flag set, both lines date-time *)
GranularityWitness ==
    /\ pc = "converted"
    /\ task_in[1].date_due_has_time = Some(TRUE)
    /\ task_in[1].date_start_has_time \in {None, Some(FALSE)}
    /\ LET ls == BlockLines
       IN  /\ Cardinality(LinesOfKind(ls, {"DUE"})) = 1
           /\ Cardinality(LinesOfKind(ls, {"DTSTART"})) = 1
           /\ \A i \in LinesOfKind(ls, {"DUE", "DTSTART"}) :
                  ls[i][2] = ":" /\ Len(ls[i]) = 17
           /\ tz = 19800
           /\ \E i \in DOMAIN ls :
                  ls[i] = <<"DUE", ":", "2", "0", "2", "3", "1", "1", "1", "5", "T",
                            "0", "3", "4", "3", "2", "0">>
           /\ \E i \in DOMAIN ls :
                  ls[i] = <<"DTSTART", ":", "2", "0", "0", "0", "0", "3", "0", "1", "T",
                            "0", "5", "2", "9", "5", "9">>

-----------------------------------------------------------------------------
(* C3: every block has exactly one status outcome: the single line
   STATUS:NEEDS-ACTION and no COMPLETED line when date_completed is absent
   or falsy, otherwise the single line STATUS:COMPLETED with exactly one
   COMPLETED line carrying a full date-time. *)

IsCompleted(t) == t.date_completed # None /\ t.date_completed[1] # TZero

StatusExclusive ==
    pc = "converted" =>
        LET ls        == BlockLines
            needs     == LinesOfKind(ls, {"STATUS:NEEDS-ACTION"})
            completed == LinesOfKind(ls, {"STATUS:COMPLETED"})
            stamps    == LinesOfKind(ls, {"COMPLETED:"})
        IN  IF IsCompleted(task_in[1])
            THEN /\ needs = {}
                 /\ Cardinality(completed) = 1
                 /\ Cardinality(stamps) = 1
                 /\ \A i \in stamps : IsDateTime(Tail(ls[i]))
            ELSE /\ Cardinality(needs) = 1
                 /\ completed = {}
                 /\ stamps = {}

(* a completed task whose flags are all false got its full completion stamp *)
StatusWitness ==
    /\ pc = "converted"
    /\ IsCompleted(task_in[1])
    /\ task_in[1].date_due_has_time = Some(FALSE)
    /\ task_in[1].date_start_has_time = Some(FALSE)
    /\ tz = -28800
    /\ \E i \in DOMAIN BlockLines :
           BlockLines[i] = <<"COMPLETED:", "2", "0", "0", "0", "0", "2", "2", "9", "T",
                             "1", "5", "5", "9", "5", "9">>

-----------------------------------------------------------------------------
(* C4: the lines of every block occur in the fixed order BEGIN:VTODO, UID,
   RELATED-TO, SUMMARY, PRIORITY, DUE, DTSTART, STATUS, COMPLETED, CREATED,
   LAST-MODIFIED, RRULE, URL, CATEGORIES, DESCRIPTION, X-RTM lines,
   END:VTODO, each kind at most once; BEGIN:VTODO is the first line, UID
   the second and END:VTODO the last. *)

Rank(line) ==
    LET k == Kind(line)
    IN  CASE k = "BEGIN:VTODO" -> 1
          [] k = "UID:" -> 2
          [] k = "RELATED-TO:" -> 3
          [] k = "SUMMARY:" -> 4
          [] k = "PRIORITY:" -> 5
          [] k = "DUE" -> 6
          [] k = "DTSTART" -> 7
          [] k \in {"STATUS:NEEDS-ACTION", "STATUS:COMPLETED"} -> 8
          [] k = "COMPLETED:" -> 9
          [] k = "CREATED:" -> 10
          [] k = "LAST-MODIFIED:" -> 11
          [] k = "RRULE:" -> 12
          [] k = "URL:" -> 13
          [] k = "CATEGORIES:" -> 14
          [] k = "DESCRIPTION:" -> 15
          [] k \in {"X-RTM-POSTPONE-COUNT:", "X-RTM-SOURCE:"} -> 16
          [] k = "END:VTODO" -> 17
          [] OTHER -> 0

FixedFieldOrder ==
    pc = "converted" =>
        LET ls == BlockLines
        IN  /\ Len(ls) >= 3
            /\ Rank(ls[1]) = 1
            /\ Rank(ls[2]) = 2
            /\ Rank(ls[Len(ls)]) = 17
            /\ \A i \in DOMAIN ls : Rank(ls[i]) > 0
            /\ \A i, j \in DOMAIN ls : i < j => Rank(ls[i]) < Rank(ls[j])

(* a block in which every kind of line the mapper can emit is present *)
FixedFieldOrderWitness ==
    /\ pc = "converted"
    /\ Len(BlockLines) = 17
    /\ {Rank(BlockLines[i]) : i \in DOMAIN BlockLines} = 1..17

-----------------------------------------------------------------------------
(* C5: for a task that has only an id and a list_id that resolves in the
   list table.  As stated (five lines: open marker, UID, placeholder title,
   needs-action status, close marker) the claim is ScenarioAFiveLines; the
   mapper also appends the list name as a category, so what holds is
   ScenarioASixLines: the same five lines with the line
   CATEGORIES:<list name> between the status line and the close marker. *)

IsIdAndListOnly(t) ==
    /\ t.list_id # None
    /\ t = [BaseTask EXCEPT !.id = t.id, !.list_id = t.list_id]
    /\ \E i \in DOMAIN lists : lists[i][1] = Str(t.list_id[1])

ResolvedName(t) ==
    lists[CHOOSE i \in DOMAIN lists : lists[i][1] = Str(t.list_id[1])][2]

ScenarioAFiveLines ==
    (pc = "converted" /\ IsIdAndListOnly(task_in[1])) =>
        BlockLines = << <<"BEGIN:VTODO">>,
                        <<"UID:", "rtm-">> \o IntToText(task_in[1].id[1].n),
                        <<"SUMMARY:", "Untitled Task">>,
                        <<"STATUS:NEEDS-ACTION">>,
                        <<"END:VTODO">> >>

ScenarioASixLines ==
    (pc = "converted" /\ IsIdAndListOnly(task_in[1])) =>
        BlockLines = << <<"BEGIN:VTODO">>,
                        <<"UID:", "rtm-">> \o IntToText(task_in[1].id[1].n),
                        <<"SUMMARY:", "Untitled Task">>,
                        <<"STATUS:NEEDS-ACTION">>,
                        <<"CATEGORIES:">> \o ResolvedName(task_in[1]),
                        <<"END:VTODO">> >>

(* the task id=42, list_id="7" has been converted, "7" resolving to Work *)
ScenarioAWitness ==
    /\ pc = "converted"
    /\ task_in = Some([BaseTask EXCEPT !.list_id = Some(StrV(<<"7">>))])
    /\ BlockLines[2] = <<"UID:", "rtm-", "4", "2">>
    /\ BlockLines[5] = <<"CATEGORIES:", "W", "o", "r", "k">>

-----------------------------------------------------------------------------
(* C6: every block has exactly one SUMMARY line; its value is the escaped
   name when the name is present and non-empty, and the placeholder
   'Untitled Task' when the name is absent or present but empty. *)

SummaryOrPlaceholder ==
    pc = "converted" =>
        LET ls      == BlockLines
            summary == LinesOfKind(ls, {"SUMMARY:"})
            name    == task_in[1].name
        IN  /\ Cardinality(summary) = 1
            /\ \A i \in summary :
                   Tail(ls[i]) = (IF name # None /\ name[1] # <<>>
                                  THEN SinglePass(name[1])
                                  ELSE <<"Untitled Task">>)

-----------------------------------------------------------------------------
(* C1: a task is included (and is in a group of tasks_by_list) if and only
   if it passes every configured clause: its resolved list name is in the
   allow-list, is not in the deny-list, it has no completion date when only
   incomplete tasks are wanted, and it is not completed strictly before the
   cutoff.  An unconfigured clause passes. *)

(* the name the export gives the list of the task, '' when there is none *)
ExportListName(t) ==
    LET key     == IF t.list_id = None THEN <<>> ELSE Str(t.list_id[1])
        matches == {i \in DOMAIN rtm_data.lists : Str(rtm_data.lists[i].id) = key}
    IN  IF matches = {} THEN <<>>
        ELSE rtm_data.lists[CHOOSE i \in matches : \A j \in matches : j <= i].name

(* days from 1970-01-01 to the given date *)
DaysFromCivil(year, month, day) ==
    LET y   == IF month <= 2 THEN year - 1 ELSE year
        era == y \div 400
        yoe == y - era * 400
        mp  == IF month > 2 THEN month - 3 ELSE month + 9
        doy == (153 * mp + 2) \div 5 + day - 1
        doe == yoe * 365 + yoe \div 4 - yoe \div 100 + doy
    IN  era * 146097 + doe - 719468

HasCompletionDate(t) == t.date_completed # None /\ t.date_completed[1] # Ts(0, 0)

PassesAllowList(t) ==
    args.lists = None \/ \E i \in DOMAIN args.lists[1] : args.lists[1][i] = ExportListName(t)

PassesDenyList(t) ==
    args.exclude_lists = None
    \/ \A i \in DOMAIN args.exclude_lists[1] : args.exclude_lists[1][i] # ExportListName(t)

PassesIncompleteOnly(t) == ~args.incomplete_only \/ ~HasCompletionDate(t)

(* the local wall-clock second of the completion is not before local
   midnight of the cutoff day; the cutoff has no fraction of a second *)
PassesCutoff(t) ==
    \/ args.skip_completed_before = None
    \/ ~HasCompletionDate(t)
    \/ LET c == args.skip_completed_before[1]
       IN  t.date_completed[1].sec + tz >= DaysFromCivil(c.year, c.month, c.day) * 86400

ClausesPassed(t) ==
    (IF PassesAllowList(t) THEN 1 ELSE 0) + (IF PassesDenyList(t) THEN 1 ELSE 0)
    + (IF PassesIncompleteOnly(t) THEN 1 ELSE 0) + (IF PassesCutoff(t) THEN 1 ELSE 0)

(* the groups that hold the task at position i of the export *)
GroupsHolding(i) ==
    {g \in DOMAIN tasks_by_list :
        \E k \in DOMAIN tasks_by_list[g][2] : tasks_by_list[g][2][k] = rtm_data.tasks[i]}

FilterIsConjunction ==
    pc \in {"filter", "write", "done"} =>
        \A i \in 1..(idx - 1) :
            (GroupsHolding(i) # {}) <=> (ClausesPassed(rtm_data.tasks[i]) = 4)

(* all four clauses configured; a task passing three of them was excluded
   and a task passing all four was included *)
FilterWitness ==
    /\ pc = "done"
    /\ args.lists # None /\ args.exclude_lists # None
    /\ args.incomplete_only /\ args.skip_completed_before # None
    /\ \E i \in DOMAIN rtm_data.tasks :
           /\ ClausesPassed(rtm_data.tasks[i]) = 3
           /\ PassesCutoff(rtm_data.tasks[i]) /\ HasCompletionDate(rtm_data.tasks[i])
           /\ GroupsHolding(i) = {}
    /\ \E i \in DOMAIN rtm_data.tasks :
           ClausesPassed(rtm_data.tasks[i]) = 4 /\ GroupsHolding(i) # {}

-----------------------------------------------------------------------------
(* C8: after the filter-and-group loop tasks_by_list is a stable partition
   of the included tasks by list_id: every included task is in exactly one
   group, the one keyed by its stringified list_id, each group once, and
   the tasks of a group are in the order of the export. *)

GroupKey(t) == IF t.list_id = None THEN <<>> ELSE Str(t.list_id[1])

StablePartition ==
    pc \in {"write", "done"} =>
        /\ \A g, h \in DOMAIN tasks_by_list :
               tasks_by_list[g][1] = tasks_by_list[h][1] => g = h
        /\ \A i \in DOMAIN rtm_data.tasks :
               IF ClausesPassed(rtm_data.tasks[i]) = 4
               THEN \E g \in DOMAIN tasks_by_list :
                        /\ GroupsHolding(i) = {g}
                        /\ tasks_by_list[g][1] = GroupKey(rtm_data.tasks[i])
                        /\ Cardinality({k \in DOMAIN tasks_by_list[g][2] :
                               tasks_by_list[g][2][k] = rtm_data.tasks[i]}) = 1
               ELSE GroupsHolding(i) = {}
        /\ \A g \in DOMAIN tasks_by_list :
               LET group == tasks_by_list[g][2]
               IN  /\ group # <<>>
                   /\ \A k \in DOMAIN group :
                          \E i \in DOMAIN rtm_data.tasks : rtm_data.tasks[i] = group[k]
                   /\ \A k, l \in DOMAIN group : k < l => group[k].id[1].n < group[l].id[1].n

(* two tasks of one list, one with list_id 7 and one with list_id "7", are
   in one group in export order *)
StablePartitionWitness ==
    /\ pc = "done"
    /\ \E g \in DOMAIN tasks_by_list :
           /\ tasks_by_list[g][1] = <<"7">>
           /\ Len(tasks_by_list[g][2]) = 2
           /\ tasks_by_list[g][2][1].id[1].n = 1
           /\ tasks_by_list[g][2][1].list_id = Some(IntV(7))
           /\ tasks_by_list[g][2][2].id[1].n = 2
           /\ tasks_by_list[g][2][2].list_id = Some(StrV(<<"7">>))
    /\ filtered_count = 0

-----------------------------------------------------------------------------
(* C9: tasks whose list_id is missing or does not resolve are grouped under
   their own key and the name 'List-<list_id>'; in no group and in no
   written document are they combined with, or put in the place of, the
   tasks of a different list. *)

UidLine(t) == <<"UID:", "rtm-">> \o IntToText(t.id[1].n)

IsUnresolved(key) == \A i \in DOMAIN rtm_data.lists : Str(rtm_data.lists[i].id) # key

(* the lines of the file main names after the group with this key; no
   line when there is no such file *)
FileLinesOfGroup(key) ==
    LET name == IF IsUnresolved(key) THEN <<"L", "i", "s", "t", "-">> \o key
                ELSE ExportListName([list_id |-> Some(StrV(key))])
        file == safe_name(name) \o <<".ics">>
        hits == {f \in DOMAIN files : files[f][1] = file}
    IN  IF hits = {} THEN <<>> ELSE SplitLines(files[CHOOSE f \in hits : TRUE][2])

UnresolvedKeptApart ==
    pc = "done" =>
        \A u \in DOMAIN tasks_by_list :
            IsUnresolved(tasks_by_list[u][1]) =>
                /\ \A k \in DOMAIN tasks_by_list[u][2] :
                       GroupKey(tasks_by_list[u][2][k]) = tasks_by_list[u][1]
                /\ \A g \in DOMAIN tasks_by_list :
                       tasks_by_list[g][1] # tasks_by_list[u][1] =>
                           \A k \in DOMAIN tasks_by_list[u][2] :
                               \A n \in DOMAIN FileLinesOfGroup(tasks_by_list[g][1]) :
                                   FileLinesOfGroup(tasks_by_list[g][1])[n]
                                       # UidLine(tasks_by_list[u][2][k])

-----------------------------------------------------------------------------
(* C10: the document written for a group is BEGIN:VCALENDAR, VERSION:2.0,
   the PRODID line, CALSCALE:GREGORIAN, X-WR-CALNAME:<escaped name>, the
   block of each task of the group in the group's order, END:VCALENDAR,
   consecutive lines separated by CRLF and never by a bare LF. *)

RECURSIVE BlocksAfterCRLF(_)
BlocksAfterCRLF(tasks) ==
    IF tasks = <<>> THEN <<>>
    ELSE <<CR, LF>> \o convert_task_to_vtodo(tasks[1], lists, notes_by_series, tz)
         \o BlocksAfterCRLF(Tail(tasks))

ExpectedDocument(name, tasks) ==
    <<"BEGIN:VCALENDAR", CR, LF, "VERSION:2.0", CR, LF,
      "PRODID:-//RTM to Nextcloud Converter//EN", CR, LF,
      "CALSCALE:GREGORIAN", CR, LF, "X-WR-CALNAME:">> \o SinglePass(name)
    \o BlocksAfterCRLF(tasks) \o <<CR, LF, "END:VCALENDAR">>

GroupOfKey(key) ==
    tasks_by_list[CHOOSE g \in DOMAIN tasks_by_list : tasks_by_list[g][1] = key][2]

DocumentShape ==
    \A w \in DOMAIN written :
        LET key     == written[w][1]
            content == written[w][3]
            name    == IF IsUnresolved(key) THEN <<"L", "i", "s", "t", "-">> \o key
                       ELSE ExportListName([list_id |-> Some(StrV(key))])
        IN  /\ content = ExpectedDocument(name, GroupOfKey(key))
            /\ \A i \in DOMAIN content :
                   content[i] = LF => (i > 1 /\ content[i - 1] = CR)
            /\ Len(SplitLines(content)) >= 6 + 4 * Len(GroupOfKey(key))

(* a document of two blocks whose calendar name had to be escaped *)
DocumentWitness ==
    \E w \in DOMAIN written :
        /\ Len(GroupOfKey(written[w][1])) = 2
        /\ SplitLines(written[w][3])[5] = <<"X-WR-CALNAME:", "A", BS, ",", "B">>
        /\ Cardinality(LinesOfKind(SplitLines(written[w][3]), {"BEGIN:VTODO"})) = 2

-----------------------------------------------------------------------------
(* C11: vendor extension lines.  As stated (a postpone-count line exactly
   when postponed is present and a source line exactly when source is
   present, independently) the claim is VendorLinesBothFields.  The mapper
   has no line for source, and skips a postpone count of 0, so what holds is
   VendorLinePostponeOnly: the block has the line
   X-RTM-POSTPONE-COUNT:<count> exactly when postponed is present and truthy,
   right before the close marker, and no other vendor line whatever the
   source field is. *)

(* the lines that are none of the standard fields nor the two markers *)
VendorLines(ls) == {i \in DOMAIN ls : Rank(ls[i]) \notin (1..15) \cup {17}}

VendorLinesBothFields ==
    pc = "converted" =>
        Cardinality(VendorLines(BlockLines))
            = (IF task_in[1].postponed # None THEN 1 ELSE 0)
              + (IF task_in[1].source # None THEN 1 ELSE 0)

VendorLinePostponeOnly ==
    pc = "converted" =>
        LET ls        == BlockLines
            postponed == task_in[1].postponed
            counted   == postponed # None /\ postponed[1] \notin {IntV(0), StrV(<<>>)}
        IN  IF counted
            THEN /\ VendorLines(ls) = {Len(ls) - 1}
                 /\ ls[Len(ls) - 1] =
                        <<"X-RTM-POSTPONE-COUNT:">> \o
                        (IF postponed[1].kind = "int" THEN IntToText(postponed[1].n)
                         ELSE postponed[1].s)
            ELSE VendorLines(ls) = {}

(* a task with a source, a postpone count of 3 and a description: the one
   vendor line follows the description *)
VendorLineWitness ==
    /\ pc = "converted"
    /\ task_in[1].source = Some(<<"j", "s">>)
    /\ task_in[1].postponed = Some(IntV(3))
    /\ Len(BlockLines) = 7
    /\ Kind(BlockLines[5]) = "DESCRIPTION:"
    /\ BlockLines[6] = <<"X-RTM-POSTPONE-COUNT:", "3">>

-----------------------------------------------------------------------------
(* C12: when the filter-and-group loop is over, filtered_count is the
   number of tasks of the export that fail the inclusion predicate and the
   groups hold as many tasks as pass it; the documents written for the
   groups hold one block per passing task, so blocks and filtered count sum
   to the number of tasks of the export. With --incomplete-only and no
   other filter the blocks are as many as the tasks without a completion
   date: ten tasks, three of them completed, give seven blocks and a
   filtered count of three. *)

Passing == {i \in DOMAIN rtm_data.tasks : ClausesPassed(rtm_data.tasks[i]) = 4}

RECURSIVE GroupedTasks(_)
GroupedTasks(groups) ==
    IF groups = <<>> THEN 0 ELSE Len(groups[1][2]) + GroupedTasks(Tail(groups))

RECURSIVE BlocksIn(_)
BlocksIn(ws) ==
    IF ws = <<>> THEN 0
    ELSE Cardinality(LinesOfKind(SplitLines(ws[1][3]), {"BEGIN:VTODO"}))
         + BlocksIn(Tail(ws))

BlocksMatch(blocks, passing) ==
    /\ blocks = passing
    /\ total_tasks = passing
    /\ filtered_count + blocks = Len(rtm_data.tasks)
    /\ args = IncompleteOnly =>
           blocks = Cardinality({i \in DOMAIN rtm_data.tasks :
                                    ~HasCompletionDate(rtm_data.tasks[i])})

CountsAddUp ==
    /\ pc \in {"write", "done"} =>
           /\ filtered_count = Len(rtm_data.tasks) - Cardinality(Passing)
           /\ GroupedTasks(tasks_by_list) = Cardinality(Passing)
    /\ pc = "done" => BlocksMatch(BlocksIn(written), Cardinality(Passing))

CountsWitness ==
    /\ pc = "done"
    /\ Len(rtm_data.tasks) = 10
    /\ args = IncompleteOnly
    /\ Cardinality({i \in DOMAIN rtm_data.tasks : HasCompletionDate(rtm_data.tasks[i])}) = 3
    /\ Len(written) = 2
    /\ BlocksIn(written) = 7
    /\ filtered_count = 3

-----------------------------------------------------------------------------
(* C13: convert_task_to_vtodo returns a complete block, BEGIN:VTODO first
   and END:VTODO last, for every task that has an id, whichever optional
   fields are absent and whether or not parent_id, list_id and series_id
   point at an existing task, list or note group; the call fails exactly
   when the id is missing. *)

OnlyMissingIdFails ==
    /\ pc = "raised" => task_in[1].id = None /\ block_out = <<>>
    /\ pc = "converted" =>
           /\ task_in[1].id # None
           /\ BlockLines[1] = <<"BEGIN:VTODO">>
           /\ BlockLines[Len(BlockLines)] = <<"END:VTODO">>
           /\ LinesOfKind(BlockLines, {"END:VTODO"}) = {Len(BlockLines)}

(* a parent, a list and a note group that do not exist, name absent *)
DanglingReferencesWitness ==
    /\ pc = "converted"
    /\ task_in[1].parent_id = Some(IntV(41))
    /\ task_in[1].list_id = Some(StrV(<<"9", "9">>))
    /\ task_in[1].series_id = Some(IntV(77))
    /\ task_in[1].name = None /\ task_in[1].tags = None
    /\ BlockLines = << <<"BEGIN:VTODO">>, <<"UID:", "rtm-", "4", "2">>,
                       <<"RELATED-TO:", "rtm-", "4", "1">>,
                       <<"SUMMARY:", "Untitled Task">>,
                       <<"STATUS:NEEDS-ACTION">>, <<"END:VTODO">> >>

-----------------------------------------------------------------------------
(* C14: the write loop gives every group of tasks_by_list a file of its
   own: no two groups are written under the same file name, every document
   written is still the content of its file at the end of the run, and the
   files on disk are as many as the groups and as the 'Files created' line
   of the summary reports. *)

DistinctFilePerGroup ==
    pc = "done" =>
        /\ \A g, h \in DOMAIN written : g # h => written[g][2] # written[h][2]
        /\ \A w \in DOMAIN written : DictGet(files, written[w][2]) = written[w][3]
        /\ Cardinality(DictKeys(files)) = Len(tasks_by_list)
        /\ Cardinality(DictKeys(files)) = Len(files_created)

====
